---- MODULE Spec2Model ----
(***************************************************************************)
(* Model of theharithsa/dynatrace-email-reporter.                          *)
(*                                                                         *)
(* Part 1: the trace CLI (trace-cli.js).  Every invocation is one          *)
(* short-lived process; the state that survives a process is what it        *)
(* exported (spans), what it POSTed (log records), the hand-off files it    *)
(* left in the working directory and what the orchestrator captured from    *)
(* it (standard output, exit code).  The repository holds several           *)
(* revisions of the script; `rev` names the one that is installed.          *)
(*                                                                         *)
(* Part 2: the pipeline tracer (pipeline-trace.js), one process that runs   *)
(* the steps of a job as child spans of a root span.                        *)
(*                                                                         *)
(* Part 3: the report server (index.js), its handler followed from one      *)
(* await to the next, and the logTracedOperation wrapper.                   *)
(*                                                                         *)
(* Part 4: the summary CLI (part_007, part_009): one span and one           *)
(* execution-summary record per run.                                        *)
(*                                                                         *)
(* Trace and span identifiers are drawn by the OpenTelemetry id generator   *)
(* (random 128/64-bit values); the model hands out the next unused number,  *)
(* i.e. it takes the generator's draws to be fresh.                         *)
(***************************************************************************)
EXTENDS Integers, Sequences, FiniteSets, TLC

\* ------------------------------------------------------------------ bounds

\* Number of span identifiers the id generator may hand out in one behaviour.
MaxSpanIds == 2

\* Number of trace identifiers the id generator may hand out in one behaviour.
MaxTraceIds == 2

\* Span ids available to one orchestrated job (SpecJob).
MaxJobSpans == 4
MaxRequests == 2
MaxCalls == 2

\* Runs of the summary CLI followed in one behaviour.
MaxRuns == 2

\* The latest time the clock shows (SpecTimer).
MaxClock == 2

\* ------------------------------------------------------------- CLI: values

\* getArg's null (flag absent), and JavaScript's undefined / '' (all falsy).
NoArg == 0

\* Identifiers the orchestrator may pass that no invocation of the job printed.
ForeignTrace == MaxTraceIds + 10
ForeignSpan == MaxSpanIds + 10

\* The revisions of trace-cli.js in the repository.
RevTc1 == "trace-cli.js#1"
RevP6 == "part_006"
RevTc2 == "trace-cli.js#2"
RevP8a == "part_008#1"
RevP8b == "part_008#2"
RevP10 == "part_010"
CliRevs == {RevTc1, RevTc2, RevP6, RevP8a, RevP8b, RevP10}

\* Revisions whose main block ends with `await sdk.shutdown()` after the
\* if / else-if chain (the others shut down inside each branch).
ShutdownAfterChain(r) == r \in {RevP8a, RevP8b, RevP10}

\* Step names, as sequences of characters (the orchestrator's --step=...).
StepJob == <<"B">>
StepSpaced == <<"U", " ", "T">>
StepUnderscored == <<"U", "_", "T">>
ChildSteps == {StepSpaced, StepUnderscored}

\* Outcomes of the HTTP POST to the log-ingestion endpoint.
PostOutcomes == {"2xx", "non2xx", "exception"}

\* The step outcome the orchestrator reports with end-child / end.
StepOutcomes == {"success", "failure"}

\* ----------------------------------------------------- CLI: hand-off files

\* step.replace(/\s+/g, '_'): every run of whitespace becomes one underscore.
RECURSIVE DropWs(_)
DropWs(s) ==
    IF s # <<>> /\ Head(s) = " " THEN DropWs(Tail(s)) ELSE s

RECURSIVE ReplaceWs(_)
ReplaceWs(s) ==
    IF s = <<>> THEN <<>>
    ELSE IF Head(s) = " " THEN <<"_">> \o ReplaceWs(DropWs(s))
    ELSE <<Head(s)>> \o ReplaceWs(Tail(s))

\* The name of the file start-child writes and end-child reads.
ChildFile(step) == <<".child-">> \o ReplaceWs(step)

\* The name of the file start writes and end reads.
TraceContextFile == <<".trace_context">>

\* f.startsWith('.child-')
IsChildFile(n) == Head(n) = ".child-"

\* A write that leaves an existing file as it is.
WriteFileKeep(fs, name, content) ==
    [n \in DOMAIN fs \cup {name} |-> IF n \in DOMAIN fs THEN fs[n] ELSE content]

\* fs.writeFileSync(name, base64(JSON.stringify(content)))
WriteFile(fs, name, content) ==
    [n \in DOMAIN fs \cup {name} |-> IF n = name THEN content ELSE fs[n]]

\* fs.unlinkSync on every name in names
DeleteFiles(fs, names) == [n \in DOMAIN fs \ names |-> fs[n]]

\* fs.existsSync(name)
FileExists(fs, name) == name \in DOMAIN fs

\* A property of a parsed JSON object; undefined when the key is absent.
Field(obj, key) == IF key \in DOMAIN obj THEN obj[key] ELSE NoArg

NoFiles == [n \in {} |-> NoArg]

\* ------------------------------------------------- CLI: OpenTelemetry calls

\* A tracer that accepts a parent only if its own generator can have made it.
IsValidCtxLocalOnly(t, s) ==
    /\ t # NoArg /\ s # NoArg
    /\ t < ForeignTrace /\ s < ForeignSpan

\* isSpanContextValid of the context injected with trace.setSpanContext.
IsValidCtx(t, s) == t # NoArg /\ s # NoArg

SpanName(step, suffix) == [step |-> step, suffix |-> suffix]

\* tracer.startSpan(name) inside context.with(setSpanContext(ROOT_CONTEXT,
\* {traceId: pT, spanId: pS})): a new span id; the parent's trace id when the
\* injected context is valid, a new trace id (a root span) otherwise.
StartSpan(st, pT, pS, name) ==
    IF IsValidCtx(pT, pS)
    THEN [nT |-> st.nT, nS |-> st.nS + 1,
          span |-> [name |-> name, traceId |-> pT, spanId |-> st.nS,
                    parentSpanId |-> pS, ended |-> FALSE]]
    ELSE [nT |-> st.nT + 1, nS |-> st.nS + 1,
          span |-> [name |-> name, traceId |-> st.nT, spanId |-> st.nS,
                    parentSpanId |-> NoArg, ended |-> FALSE]]

\* span.end()
EndSpan(sp) == [sp EXCEPT !.ended = TRUE]

\* ------------------------------------------------------ CLI: the log emitter

Line(k, v) == [k |-> k, v |-> v]

Payload(cmd, step, t, s, status) ==
    [step |-> step, cmd |-> cmd, status |-> status, trace_id |-> t, span_id |-> s]

\* An emitter that sends the record a second time when the POST failed.
LogToDynatraceRetry(payload, outcome) ==
    [threw |-> FALSE,
     posts |-> IF outcome = "2xx" THEN <<payload>> ELSE <<payload, payload>>,
     local |-> IF outcome = "2xx" THEN <<"info: Log sent to Dynatrace">>
               ELSE <<"error: Log ingestion failed">>]

\* An emitter whose catch rethrows: a failed POST rejects the call.
LogToDynatraceRethrow(payload, outcome) ==
    [threw |-> outcome # "2xx",
     posts |-> <<payload>>,
     local |-> IF outcome = "2xx" THEN <<"info: Log sent to Dynatrace">>
               ELSE <<"error: Log ingestion failed">>]

\* logToDynatrace(payload): one fetch inside try; a rejected fetch and a
\* non-2xx response (thrown inside the try) both end in the catch, which logs.
LogToDynatrace(payload, outcome) ==
    [threw |-> FALSE,
     posts |-> <<payload>>,
     local |-> IF outcome = "2xx" THEN <<"info: Log sent to Dynatrace">>
               ELSE <<"error: Log ingestion failed">>]

\* ------------------------------------------------ CLI: one process's record

\* No label has been timed.
NoTimers == [l \in {} |-> 0]

\* A timer table that outlives the process: a process starts with the
\* entries that earlier invocations made.
ProcessTimersKept(st) == st.started

\* const timers = {}: the table is created when the script is loaded; every
\* process starts with an empty one.
ProcessTimers(st) == NoTimers

\* What one invocation did: the spans it started (ended or not), the log
\* records it POSTed, the files it left, its standard output, its local log,
\* the order of its calls, its exit code, and the id generator's position.
Begin(st) ==
    [nT |-> st.nT, nS |-> st.nS, local |-> <<>>, spans |-> {}, logs |-> <<>>,
     files |-> st.files, out |-> <<>>, events |-> <<"sdk.start">>, exit |-> 0,
     shutdown |-> FALSE, failed |-> FALSE,
     timers |-> ProcessTimers(st), now |-> st.now, attrs |-> {}]

\* The revisions that define startTimer / stopTimer.
HasTimers(rv) == rv # RevTc2

\* The label the branches pass to startTimer / stopTimer: the step name, or
\* the fixed 'step_duration' of the later revisions.
TimerLabel(rv, step) ==
    IF rv \in {RevTc1, RevP6} THEN step ELSE <<"step_duration">>

\* startTimer(label): timers[label] = Date.now()
StartTimer(rv, r, step) ==
    IF HasTimers(rv)
    THEN [r EXCEPT !.timers = (TimerLabel(rv, step) :> r.now) @@ @]
    ELSE r

\* stopTimer(label): Date.now() - (timers[label] || Date.now()); the two
\* reads are consecutive in one synchronous expression and the clock is a
\* logical one: both return the time of the process.
StopTimer(rv, r, step) ==
    LET label == TimerLabel(rv, step)
        t1 == r.now
        t2 == r.now
    IN t1 - (IF label \in DOMAIN r.timers /\ r.timers[label] # 0
             THEN r.timers[label]
             ELSE t2)

\* logger.error(...) followed by process.exit(1): the process ends at once.
ExitOne(r, msg) ==
    [r EXCEPT !.local = @ \o <<msg>>, !.exit = 1, !.events = @ \o <<"exit">>]

\* console.log lines
ConsoleLog(r, lines) == [r EXCEPT !.out = @ \o lines]

\* A debug line that is itself a trace_id=<id> line.
DebugLineBare(rv, t) == IF rv = RevP6 THEN <<Line("trace_id", t)>> ELSE <<>>

\* console.log(`DEBUG: ... trace_id=${t}, ...`): one more line on standard
\* output in the revision with DEBUG output; it starts with "DEBUG:" and
\* names the trace id (and the span id) inside its text.
DebugLine(rv, t) == IF rv = RevP6 THEN <<Line("DEBUG", t)>> ELSE <<>>

\* A span started and left open (never ended in this process).
Opened(r, s) ==
    [r EXCEPT !.spans = @ \cup {s.span}, !.nT = s.nT, !.nS = s.nS,
              !.events = @ \o <<"span.start">>]

\* A span started and ended in this process.
OpenedAndEnded(r, s) ==
    [r EXCEPT !.spans = @ \cup {EndSpan(s.span)}, !.nT = s.nT, !.nS = s.nS,
              !.events = @ \o <<"span.start", "span.end">>]

\* await logToDynatrace(...): the POST has settled before the next statement;
\* a rejection propagates out of the main block.
AwaitLog(r, lg) ==
    [r EXCEPT !.logs = @ \o lg.posts, !.local = @ \o lg.local,
              !.events = @ \o <<"post", "post.done">>,
              !.failed = lg.threw]

\* A main block that returns without calling sdk.shutdown().
ReturnWithoutShutdown(r) ==
    [r EXCEPT !.exit = IF r.failed THEN 1 ELSE 0, !.events = @ \o <<"exit">>]

\* await sdk.shutdown() and the end of the main block; an exception that is
\* propagating skips the shutdown and ends the process with code 1.
AwaitShutdown(r) ==
    IF r.failed
    THEN [r EXCEPT !.exit = 1, !.events = @ \o <<"exit">>]
    ELSE [r EXCEPT !.shutdown = TRUE, !.events = @ \o <<"sdk.shutdown", "exit">>]

\* logToDynatrace(...) called without await, then the rest of the branch
\* (`cleanup`: the events of the synchronous statements that follow), then
\* await sdk.shutdown(): the fetch is sent at once and settles only after
\* sdk.shutdown() has been called.
FireLogThenShutdown(r, lg, cleanup) ==
    [r EXCEPT !.logs = @ \o lg.posts, !.local = @ \o lg.local,
              !.events = @ \o <<"post">> \o cleanup
                           \o <<"sdk.shutdown", "post.done", "exit">>,
              !.shutdown = TRUE,
              !.exit = IF lg.threw THEN 1 ELSE 0]

\* The main block ends without reaching any sdk.shutdown().
FallOffEnd(r) == [r EXCEPT !.events = @ \o <<"exit">>]

\* --------------------------------------------------------- CLI: `start`

\* if (command === 'start') { ... }
BranchStart(rv, a, st) ==
    LET s == StartSpan(st, NoArg, NoArg, SpanName(a.step, ""))
        lines == <<Line("trace_id", s.span.traceId),
                   Line("parent_span_id", s.span.spanId)>>
    IN CASE rv \in {RevTc1, RevP6, RevTc2, RevP10} ->
              \* the span is started, printed and never ended
              AwaitShutdown(ConsoleLog(Opened(StartTimer(rv, Begin(st), a.step),
                                              s),
                                       DebugLine(rv, s.span.traceId) \o lines))
         [] rv = RevP8a ->
              \* span.end() after the two lines
              AwaitShutdown(OpenedAndEnded(
                  ConsoleLog(StartTimer(rv, Begin(st), a.step), lines), s))
         [] rv = RevP8b ->
              \* the context is written to .trace_context, the span left open
              LET r1 == Opened(StartTimer(rv, Begin(st), a.step), s)
                  r2 == [r1 EXCEPT
                           !.files = WriteFile(@, TraceContextFile,
                                [trace_id |-> s.span.traceId,
                                 parent_span_id |-> s.span.spanId]),
                           !.events = @ \o <<"file.write">>]
              IN AwaitShutdown(ConsoleLog(r2, lines))

\* ---------------------------------------------------- CLI: `start-child`

\* A guard that looks at the parent span id alone.
StartChildMissingParentOnly(rv, a) == a.parentSpanId = NoArg

\* if (!traceId || !parentSpanId)
StartChildMissing(rv, a) == a.traceId = NoArg \/ a.parentSpanId = NoArg

\* Printing the span id that was passed in instead of the new span's.
StartChildLinesEcho(rv, a, sp) ==
    <<Line("trace_id", a.traceId), Line("span_id", a.parentSpanId)>>

\* The two lines start-child prints for the span it started.
StartChildLines(rv, a, sp) ==
    IF rv \in {RevTc1, RevP6, RevTc2}
    THEN <<Line("trace_id", sp.traceId), Line("span_id", sp.spanId)>>
    ELSE <<Line("trace_id", a.traceId), Line("span_id", sp.spanId)>>

\* else if (command === 'start-child') { ... }
BranchStartChild(rv, a, st, outcome) ==
    IF StartChildMissing(rv, a)
    THEN IF rv \in {RevTc1, RevP6, RevTc2}
         THEN ExitOne(ConsoleLog(Begin(st), <<Line("trace_id", a.traceId),
                                         Line("span_id", NoArg)>>),
                      "error: missing trace-id or parent-span-id")
         ELSE \* startTimer('step_duration') comes before the check
              ExitOne(StartTimer(rv, Begin(st), a.step),
                      "error: missing trace-id or parent-span-id")
    ELSE
    LET s == StartSpan(st, a.traceId, a.parentSpanId, SpanName(a.step, ""))
        lines == StartChildLines(rv, a, s.span)
        b == StartTimer(rv, Begin(st), a.step)
    IN CASE rv \in {RevTc1, RevP6, RevP8a, RevP10} ->
              AwaitShutdown(ConsoleLog(Opened(b, s), lines))
         [] rv = RevTc2 ->
              \* childSpan.end(), then a 'completed' log record
              AwaitShutdown(AwaitLog(
                  ConsoleLog(OpenedAndEnded(b, s), lines),
                  LogToDynatrace(Payload("start-child", a.step, a.traceId,
                                         s.span.spanId, "completed"), outcome)))
         [] rv = RevP8b ->
              LET r1 == ConsoleLog(Opened(b, s), lines)
                  r2 == [r1 EXCEPT
                           !.files = WriteFile(@, ChildFile(a.step),
                                [step |-> a.step,
                                 traceId |-> a.traceId,
                                 spanId |-> s.span.spanId]),
                           !.events = @ \o <<"file.write">>]
              IN AwaitShutdown(r2)

\* ------------------------------------------------------ CLI: `end-child`

\* An end-child that closes only a child whose hand-off file still exists.
EndChildSpanIdFromFile(rv, a, st) ==
    IF rv = RevP8b
    THEN IF FileExists(st.files, ChildFile(a.step))
         THEN Field(st.files[ChildFile(a.step)], "spanId") ELSE NoArg
    ELSE a.spanId

\* The span id end-child closes: --span-id, or (hand-off file revision) the
\* spanId stored in .child-<step> when the flag is absent and the file exists.
EndChildSpanId(rv, a, st) ==
    IF rv = RevP8b /\ a.spanId = NoArg /\ FileExists(st.files, ChildFile(a.step))
    THEN Field(st.files[ChildFile(a.step)], "spanId")
    ELSE a.spanId

\* if (!traceId || !spanId)
EndChildMissing(rv, a, st) ==
    a.traceId = NoArg \/ EndChildSpanId(rv, a, st) = NoArg

\* The status field of the log record end-child POSTs.
EndChildStatus(rv, a) == IF rv \in {RevTc1, RevP6} THEN "completed" ELSE "success"

\* The name of the span end-child starts and ends.
EndChildSpanName(rv, a) ==
    SpanName(a.step, IF rv \in {RevTc1, RevP6} THEN " - end" ELSE " - complete")

\* The log record end-child POSTs: the usual fields and step_duration_ms.
EndChildPayload(rv, a, sid, duration) ==
    [step |-> a.step, cmd |-> "end-child", status |-> EndChildStatus(rv, a),
     trace_id |-> a.traceId, span_id |-> sid, step_duration_ms |-> duration]

\* else if (command === 'end-child') { ... }
BranchEndChild(rv, a, st, outcome) ==
    IF rv = RevTc2
    THEN \* this revision has no end-child branch: the main block just ends
         FallOffEnd(Begin(st))
    ELSE IF EndChildMissing(rv, a, st)
    THEN IF rv \in {RevTc1, RevP6}
         THEN ExitOne(ConsoleLog(Begin(st), <<Line("trace_id", a.traceId),
                                              Line("span_id", a.spanId)>>),
                      "error: missing trace-id or span-id")
         ELSE ExitOne(Begin(st), "error: missing trace-id or span-id")
    ELSE
    LET sid == EndChildSpanId(rv, a, st)
        duration == StopTimer(rv, Begin(st), a.step)
        s == StartSpan(st, a.traceId, sid, EndChildSpanName(rv, a))
        r1 == OpenedAndEnded(Begin(st), s)
        r2 == IF rv \in {RevTc1, RevP6}
              THEN \* span.setAttribute('step.duration.ms', duration)
                   ConsoleLog([r1 EXCEPT !.attrs =
                                   {<<s.span.spanId, "step.duration.ms",
                                      duration>>}],
                              DebugLine(rv, a.traceId)
                                    \o <<Line("trace_id", a.traceId),
                                          Line("span_id", a.spanId)>>)
              ELSE r1
    IN AwaitShutdown(AwaitLog(r2,
           LogToDynatrace(EndChildPayload(rv, a, sid, duration), outcome)))

\* ------------------------------------------------------------ CLI: `end`

\* The check that opens the end branch, in the revisions that have one.
EndMissing(rv, a) ==
    CASE rv \in {RevTc1, RevP6} -> a.traceId = NoArg \/ a.spanId = NoArg
      [] rv = RevTc2 -> a.traceId = NoArg \/ a.parentSpanId = NoArg
      [] OTHER -> FALSE

\* The parsed .trace_context, or {} when the file is absent.
BaseTraceContext(st) ==
    IF FileExists(st.files, TraceContextFile)
    THEN st.files[TraceContextFile]
    ELSE [n \in {} |-> NoArg]

\* The context `end` injects before it starts its span.
EndParentCtx(rv, a, st) ==
    CASE rv \in {RevTc1, RevP6} -> [traceId |-> a.traceId, spanId |-> a.spanId]
      [] rv \in {RevTc2, RevP10} ->
            [traceId |-> a.traceId, spanId |-> a.parentSpanId]
      [] rv = RevP8a -> [traceId |-> NoArg, spanId |-> NoArg]
      [] rv = RevP8b ->
            [traceId |-> Field(BaseTraceContext(st), "trace_id"),
             spanId |-> Field(BaseTraceContext(st), "parent_span_id")]

\* The status field of the log record end POSTs.
EndStatus(rv, a) ==
    CASE rv \in {RevTc1, RevP6, RevTc2} -> "root-end"
      [] rv \in {RevP8a, RevP10} -> "trace-end"
      [] rv = RevP8b -> "completed"

\* The name of the span end starts and ends.
EndSpanName(rv, a) ==
    SpanName(a.step,
             CASE rv \in {RevTc1, RevP6} -> " - end"
               [] rv = RevTc2 -> "-end"
               [] rv \in {RevP8a, RevP10} -> " - trace-end"
               [] rv = RevP8b -> " Done - trace-end")

\* The log record end POSTs, given the span `sp` it has just ended.
EndPayload(rv, a, st, sp) ==
    CASE rv \in {RevTc1, RevP6} ->
           Payload("end", a.step, a.traceId, a.spanId, EndStatus(rv, a))
      [] rv \in {RevTc2, RevP10} ->
           Payload("end", a.step, a.traceId, a.parentSpanId, EndStatus(rv, a))
      [] rv = RevP8a ->
           Payload("end", a.step, a.traceId, sp.spanId, EndStatus(rv, a))
      [] rv = RevP8b ->
           Payload("end", a.step, Field(BaseTraceContext(st), "trace_id"),
                   sp.spanId, EndStatus(rv, a))

\* A cleanup that forgets the children's files.
EndCleanupContextOnly(rv, st) ==
    IF rv = RevP8b
    THEN {n \in DOMAIN st.files : n = TraceContextFile}
    ELSE {}

\* The hand-off files `end` unlinks: .trace_context and every .child-*.
EndCleanup(rv, st) ==
    IF rv = RevP8b
    THEN {n \in DOMAIN st.files : n = TraceContextFile \/ IsChildFile(n)}
    ELSE {}

\* An `end` that refuses to run once the hand-off file of the trace is gone.
BranchEndOnce(rv, a, st, outcome) ==
    IF EndMissing(rv, a) \/ (rv = RevP8b /\ ~FileExists(st.files, TraceContextFile))
    THEN ExitOne(Begin(st), "error: missing trace-id or span-id for root span")
    ELSE
    LET ctx == EndParentCtx(rv, a, st)
        s == StartSpan(st, ctx.traceId, ctx.spanId, EndSpanName(rv, a))
        r1 == OpenedAndEnded(Begin(st), s)
        lg == LogToDynatrace(EndPayload(rv, a, st, s.span), outcome)
    IN FireLogThenShutdown(
           [r1 EXCEPT !.files = DeleteFiles(@, EndCleanup(rv, st))],
           lg, <<"file.delete">>)

\* else if (command === 'end') { ... }
BranchEnd(rv, a, st, outcome) ==
    IF EndMissing(rv, a)
    THEN IF rv \in {RevTc1, RevP6}
         THEN ExitOne(ConsoleLog(Begin(st), <<Line("trace_id", a.traceId),
                                              Line("span_id", a.spanId)>>),
                      "error: missing trace-id or span-id for root span")
         ELSE ExitOne(Begin(st), "error: missing trace-id or span-id for root span")
    ELSE
    LET ctx == EndParentCtx(rv, a, st)
        s == StartSpan(st, ctx.traceId, ctx.spanId, EndSpanName(rv, a))
        r1 == OpenedAndEnded(Begin(st), s)
        r2 == IF rv \in {RevTc1, RevP6}
              THEN ConsoleLog(r1, DebugLine(rv, a.traceId)
                                    \o <<Line("trace_id", a.traceId),
                                          Line("span_id", a.spanId)>>)
              ELSE r1
        lg == LogToDynatrace(EndPayload(rv, a, st, s.span), outcome)
    IN CASE rv \in {RevTc1, RevP6, RevTc2, RevP8a} ->
              AwaitShutdown(AwaitLog(r2, lg))
         [] rv = RevP10 ->
              FireLogThenShutdown(r2, lg, <<>>)
         [] rv = RevP8b ->
              FireLogThenShutdown(
                  [r2 EXCEPT !.files = DeleteFiles(@, EndCleanup(rv, st))],
                  lg, <<"file.delete">>)

\* ------------------------------------------- CLI: any other first argument

\* A chain whose last branch is taken by every other command and does what
\* `start` does.
BranchOtherStarts(rv, st) ==
    LET s == StartSpan(st, NoArg, NoArg, SpanName(<<>>, ""))
    IN AwaitShutdown(ConsoleLog(Opened(Begin(st), s),
                                <<Line("trace_id", s.span.traceId),
                                  Line("parent_span_id", s.span.spanId)>>))

\* No branch of the if / else-if chain matches.
BranchOther(rv, st) ==
    IF ShutdownAfterChain(rv)
    THEN AwaitShutdown(Begin(st))
    ELSE FallOffEnd(Begin(st))

\* ------------------------------------------------ pipeline tracer: values

\* The revisions of pipeline-trace.js found in the repository.
RevPt1 == "pipeline-trace.js#1"
RevPt2 == "pipeline-trace.js#2"
RevP1 == "part_001"
RevP2 == "part_002"

PipeRevs == {RevPt1, RevPt2, RevP1, RevP2}

\* process.argv[2]: a known job, or anything else.
Jobs == {"Build", "Deploy", "Other"}

\* DEPLOY_START / DEPLOY_END in seconds; NoTime when the variable is unset.
NoTime == -1
MaxDeployTime == 2
DeployTimes == {NoTime} \cup (0 .. MaxDeployTime)

\* A step of a job: its span name and what a failure of its command does to
\* the step function ("none": no command; "throws": the error leaves the
\* step; "swallowed": the step catches it and returns normally).
Step(name, onFail) == [name |-> name, onFail |-> onFail]

\* The steps each revision runs for a job, in order.
Steps(rv, job) ==
    CASE job = "Build" ->
            <<Step("Install Dependencies", "throws"),
              Step("Build and Test",
                   IF rv = RevPt2 THEN "throws" ELSE "swallowed"),
              Step("Zip Artifact", "throws")>>
      [] job = "Deploy" /\ rv \in {RevPt1, RevPt2} ->
            <<Step("Download Artifact", "none"),
              Step("Unzip Artifact", "throws"),
              Step("Azure Deployment", "throws")>>
      [] job = "Deploy" /\ rv = RevP1 ->
            <<Step("Unzip Artifact", "throws"),
              Step("Azure Deployment", "throws")>>
      [] job = "Deploy" /\ rv = RevP2 ->
            <<Step("Azure Web App Deploy (timed)", "none"),
              Step("Health Check", "none"),
              Step("Smoke Test", "none")>>
      [] OTHER -> <<>>

\* deployStart / deployEnd: parseInt(env) * 1000, null when unset.
DeployMs(job, t) == IF job = "Deploy" /\ t # NoTime THEN t * 1000 ELSE NoTime

\* JavaScript truthiness of a millisecond value that may be null or 0.
Truthy(ms) == ms # NoTime /\ ms # 0

\* if (deployStart && deployEnd && deployEnd > deployStart)
UsesRecordedInterval(job, step, ds, de) ==
    /\ job = "Deploy"
    /\ step.name = "Azure Web App Deploy (timed)"
    /\ Truthy(DeployMs(job, ds))
    /\ Truthy(DeployMs(job, de))
    /\ DeployMs(job, de) > DeployMs(job, ds)

\* tracer.startSpan(name, {startTime}); NoTime stands for the clock.
OpenSpan(name, startTime) ==
    [name |-> name, ended |-> FALSE, status |-> "unset",
     startTime |-> startTime, endTime |-> NoTime]

\* span.setStatus({code})
SetStatus(sp, code) == [sp EXCEPT !.status = code]

\* span.end(endTime)
EndAt(sp, endTime) == [sp EXCEPT !.ended = TRUE, !.endTime = endTime]

\* One entry of executionLogs.
Entry(step, status, error) ==
    [step |-> step, status |-> status, error |-> error]

\* logExecutionStep({step, start, end, duration, status, error, ...}): an
\* entry with its timing; NoTime stands for a value measured by the clock.
StepEntry(step, status, error, start, end, duration) ==
    [step |-> step, status |-> status, duration |-> duration, end |-> end,
     error |-> error, start |-> start]

\* The body of one step: the span it leaves behind, the execution-log
\* entries it pushes, and whether the error leaves the step (thrown).
\* ok says whether the step's command succeeded.
RunStep(rv, job, step, ok, ds, de) ==
    LET sp == OpenSpan(step.name, NoTime)
        fails == ~ok /\ step.onFail = "throws"
    IN CASE rv = RevPt1 ->
              \* context.with(..., execSync) then span.end(): a throw skips
              \* the end; the deployment step marks the span first
              [span |-> IF fails
                        THEN IF step.name = "Azure Deployment"
                             THEN SetStatus(sp, "error") ELSE sp
                        ELSE EndAt(sp, NoTime),
               entries |-> <<>>, thrown |-> fails]
         [] rv = RevPt2 ->
              \* try / catch (setStatus, throw) / finally span.end()
              [span |-> EndAt(SetStatus(sp, IF fails THEN "error" ELSE "ok"),
                              NoTime),
               entries |-> <<>>, thrown |-> fails]
         [] rv = RevP1 ->
              \* try / catch (setStatus, log) then span.end()
              [span |-> EndAt(SetStatus(sp, IF fails THEN "error" ELSE "ok"),
                              NoTime),
               entries |-> <<>>, thrown |-> FALSE]
         [] rv = RevP2 ->
              IF UsesRecordedInterval(job, step, ds, de)
              THEN [span |-> EndAt(SetStatus(
                                OpenSpan(step.name, DeployMs(job, ds)), "ok"),
                                DeployMs(job, de)),
                    entries |-> <<StepEntry(step.name, "SUCCESS", "",
                                     DeployMs(job, ds), DeployMs(job, de),
                                     DeployMs(job, de) - DeployMs(job, ds))>>,
                    thrown |-> FALSE]
              ELSE [span |-> EndAt(SetStatus(sp, IF fails THEN "error"
                                                 ELSE "ok"), NoTime),
                    entries |-> <<StepEntry(step.name,
                                     IF fails THEN "ERROR" ELSE "SUCCESS",
                                     IF fails THEN "command failed" ELSE "",
                                     NoTime, NoTime, NoTime)>>,
                    thrown |-> FALSE]

\* An emitter that sends every entry as a record of its own.
SendExecutionLogsSplit(entries, configured) ==
    IF configured THEN [i \in 1 .. Len(entries) |-> <<entries[i]>>] ELSE <<>>

\* sendExecutionLogsToDynatrace(logsArray, traceId): nothing is sent when the
\* ingest URL or the token is not configured; otherwise one POST carrying the
\* whole array, whose failure is caught and logged.
SendExecutionLogs(entries, configured) ==
    IF configured THEN <<entries>> ELSE <<>>

\* The job check of each revision comes before (TRUE) or after (FALSE)
\* sdk.start() and the root span.
JobCheckedFirst(rv) == rv \in {RevPt1, RevPt2}

\* The root span's start and end time (part_002 uses the recorded interval).
RootStart(rv, job, ds) ==
    IF rv = RevP2 /\ job = "Deploy" /\ Truthy(DeployMs(job, ds))
    THEN DeployMs(job, ds) ELSE NoTime

RootEnd(rv, job, de) ==
    IF rv = RevP2 /\ job = "Deploy" /\ Truthy(DeployMs(job, de))
    THEN DeployMs(job, de) ELSE NoTime

\* --------------------------------------------- report server: the handler

\* The revisions of index.js: POST /send-report and POST /v1/api/send-report.
RevIdx1 == "index.js#1"
RevIdx2 == "index.js#2"
IdxRevs == {RevIdx1, RevIdx2}

\* req.headers['x-email-to']: undefined when the header is absent, else its
\* value as a sequence of characters.
Header(present, value) == [present |-> present, value |-> value]

Headers ==
    {Header(FALSE, <<>>), Header(TRUE, <<>>), Header(TRUE, <<"a">>),
     Header(TRUE, <<"a", ",", " ", "b">>)}

\* Outcomes of an awaited step of the handler.
AwaitOutcomes == {"ok", "throws"}

\* value.split(','): the pieces between commas; [''] for the empty string.
RECURSIVE SplitComma(_)
SplitComma(s) ==
    IF s = <<>> THEN << <<>> >>
    ELSE LET r == SplitComma(Tail(s))
         IN IF Head(s) = "," THEN << <<>> >> \o r
            ELSE << <<Head(s)>> \o Head(r) >> \o Tail(r)

RECURSIVE DropWsEnd(_)
DropWsEnd(s) ==
    IF s # <<>> /\ s[Len(s)] = " " THEN DropWsEnd(SubSeq(s, 1, Len(s) - 1))
    ELSE s

\* email.trim()
Trim(s) == DropWsEnd(DropWs(s))

\* req.headers['x-email-to']?.split(',').map(e => e.trim()): undefined when
\* the header is absent.
Recipients(h) ==
    IF h.present
    THEN [defined |-> TRUE,
          list |-> [i \in 1 .. Len(SplitComma(h.value)) |->
                        Trim(SplitComma(h.value)[i])]]
    ELSE [defined |-> FALSE, list |-> <<>>]

\* if (!recipientsHeader)  /  if (!recipients || recipients.length === 0)
RecipientsMissing(rv, h) ==
    IF rv = RevIdx1
    THEN ~h.present \/ h.value = <<>>
    ELSE ~Recipients(h).defined \/ Len(Recipients(h).list) = 0

\* A stretch of the handler between two awaits: the calls it makes, in
\* order, and the await (or the end) it stops at.
Stretch(events, pc) == [events |-> events, pc |-> pc]

\* A handler whose 400 path lacks the return and goes on to generateExcel.
OnReceiveNoReturn(rv, h) ==
    LET opening == IF rv = RevIdx2 THEN <<"span.start">> ELSE <<>>
    IN IF RecipientsMissing(rv, h)
       THEN Stretch(opening \o <<"res.400", "excel.call">>, "excel")
       ELSE Stretch(opening \o <<"excel.call">>, "excel")

\* From the start of the handler to the first await or to the 400 response.
OnReceive(rv, h) ==
    LET opening == IF rv = RevIdx2 THEN <<"span.start">> ELSE <<>>
    IN IF RecipientsMissing(rv, h)
       THEN Stretch(opening \o <<"res.400">>, "done")
       ELSE Stretch(opening \o <<"excel.call">>, "excel")

\* The catch block: the first revision answers 500 at once; the second
\* ends the span and awaits logToDynatrace('ERROR', ...).
CatchBlock(rv) ==
    IF rv = RevIdx1
    THEN Stretch(<<"res.500">>, "done")
    ELSE Stretch(<<"span.end", "post.error">>, "errlog")

\* await generateExcel(...) has settled.
OnExcelSettled(rv, outcome) ==
    IF outcome = "ok"
    THEN Stretch(<<"excel.done", "email.call">>, "email")
    ELSE CatchBlock(rv)

\* await sendEmailWithAttachment(...) has settled.
OnEmailSettled(rv, outcome) ==
    IF outcome = "ok"
    THEN IF rv = RevIdx1
         THEN Stretch(<<"email.done", "res.200">>, "done")
         ELSE Stretch(<<"email.done", "post.summary">>, "post")
    ELSE CatchBlock(rv)

\* A handler that answers 200 before it ends the span.
OnPostSettledRespondFirst(rv, outcome) ==
    IF outcome \in {"2xx", "non2xx"}
    THEN Stretch(<<"post.done", "res.200", "span.end">>, "done")
    ELSE CatchBlock(rv)

\* await fetch(DYNATRACE_LOG_INGEST_URL, ...) of the summary has settled: a
\* response (ok or not) is logged and the span ended before the 200; a
\* rejected fetch goes to the catch block.
OnPostSettled(rv, outcome) ==
    IF outcome \in {"2xx", "non2xx"}
    THEN Stretch(<<"post.done", "span.end", "res.200">>, "done")
    ELSE CatchBlock(rv)

\* await logToDynatrace('ERROR', ...) has returned (it never rejects).
OnErrLogSettled(rv) == Stretch(<<"post.done", "res.500">>, "done")

\* ------------------------------------- report server: logTracedOperation

\* How a promise settles: "resolves" with a value or "rejects" with the
\* value thrown.
Settles(kind, value) == [value |-> value, kind |-> kind]

\* What the wrapped fn may do: resolve with a result, or reject with an
\* Error, with a string, or with undefined (throw undefined / reject()).
FnOutcomes ==
    {Settles("resolves", "result"), Settles("resolves", "undefined"),
     Settles("rejects", "Error"), Settles("rejects", "string"),
     Settles("rejects", "undefined")}

\* error.message: a property read, which throws a TypeError on undefined.
MessageReadThrows(value) == value = "undefined"

\* The wrapper from `await fn(...args)` settling to its own settling: the
\* try returns the result; the catch logs error.message and rethrows; the
\* finally ends the span.
OnFnSettled(settles) ==
    IF settles.kind = "resolves"
    THEN [out |-> Settles("resolves", settles.value),
          events |-> <<"fn.settled", "log.info", "span.end">>]
    ELSE IF MessageReadThrows(settles.value)
    THEN [out |-> Settles("rejects", "TypeError"),
          events |-> <<"fn.settled", "span.end">>]
    ELSE [out |-> Settles("rejects", settles.value),
          events |-> <<"fn.settled", "log.error", "span.end">>]

\* ---------------------------------------------- summary CLI: one span

\* The revisions of the script that traces one span and POSTs one summary.
RevP7s == "part_007#2"
RevP9 == "part_009"
SumRevs == {RevP7s, RevP9}

\* const executionLog = {...}: the fields that tell how the run went and
\* which span it traced; a field the object does not have reads "absent".
ExecutionLog(rv) ==
    IF rv = RevP7s
    THEN [status |-> "SUCCESS", level |-> "absent", loglevel |-> "INFO",
          traced |-> FALSE]
    ELSE [status |-> "success", level |-> "INFO", loglevel |-> "absent",
          traced |-> FALSE]

\* executionLog.trace_id = traceId; executionLog.span_id = spanId
SetSpanIds(log) == [log EXCEPT !.traced = TRUE]

\* The value the catch block stores in status.
FailureValue(rv) == IF rv = RevP7s THEN "FAILED" ELSE "failure"

\* catch (err) { ... }: what the block assigns to executionLog.
Catch(rv, log) ==
    IF rv = RevP7s
    THEN [log EXCEPT !.level = "ERROR", !.status = "FAILED"]
    ELSE [log EXCEPT !.status = "failure"]

\* ------------------------------------------------------------ the state

VARIABLES
    rev,        \* the installed revision of trace-cli.js
    nextTrace,  \* the id generator: next trace id
    nextSpan,   \* the id generator: next span id
    spans,      \* every span started by any invocation so far
    logs,       \* every log record POSTed so far, in order
    files,      \* the hand-off files in the working directory
    last,       \* the most recent invocation, as the orchestrator saw it
    childSteps, \* the step names the workflow passes to start-child / end-child
    mode,       \* the orchestrator: "free" (any arguments), "job" (a workflow
                \* that passes on the ids it was given, or none at all) or
                \* "timed" (any arguments, while the clock advances)
    clock,      \* the time Date.now() returns to the next process
    started     \* for each timer label, when startTimer was last called
                \* with it, in whichever process

cliVars ==
    <<rev, nextTrace, nextSpan, spans, logs, files, last, childSteps, mode,
      clock, started>>

VARIABLES
    prev,       \* the installed revision of pipeline-trace.js
    pjob,       \* the job argument of the pipeline-trace process
    penv,       \* its environment: ingest configuration, GitHub data, times
    ppc,        \* its position: "idle", "steps" or "done"
    pidx,       \* the index of the next step to run
    pspans,     \* the spans it started, the root span first
    pentries,   \* executionLogs
    pposts,     \* the bodies it POSTed to the log-ingest endpoint
    pevents,    \* the order of its SDK, span and network calls
    pshut,      \* sdk.shutdown() has completed
    pexit,      \* its exit code, once ppc = "done"
    pfailed     \* the steps whose command failed

pipeVars == <<prev, pjob, penv, ppc, pidx, pspans, pentries, pposts, pevents,
              pshut, pexit, pfailed>>

VARIABLES
    hrev,       \* the installed revision of index.js
    hreq,       \* the request being handled: header and the steps' outcomes
    hpc,        \* the handler's position: "idle", an await, or "done"
    hevents,    \* the calls the handler made for this request, in order
    hnum,       \* the number of requests received so far
    wcalls      \* the calls of a function wrapped by logTracedOperation

srvVars == <<hrev, hreq, hpc, hevents, hnum, wcalls>>

VARIABLES
    srev,       \* the installed revision of the summary CLI
    spc,        \* its position: "idle", an await, or "done"
    slog,       \* executionLog of the running process
    scaught,    \* the catch block of this run was entered
    sposts,     \* the bodies POSTed to the log-ingest endpoint, all runs
    sevents,    \* the calls this run made, in order
    sruns       \* the number of runs started so far

sumVars == <<srev, spc, slog, scaught, sposts, sevents, sruns>>

vars == <<cliVars, pipeVars, srvVars, sumVars>>

\* The summary CLI has not been run.
SumFresh ==
    /\ spc = "idle"
    /\ slog = ExecutionLog(srev)
    /\ scaught = FALSE
    /\ sposts = <<>>
    /\ sevents = <<>>
    /\ sruns = 0

Request(to, excel, email, post) ==
    [post |-> post, excel |-> excel, email |-> email, to |-> to]

NoRequest == Request(Header(FALSE, <<>>), "ok", "ok", "2xx")

\* A call of the wrapper: what fn does (settles), the position of the call,
\* the calls it made in order, and how it settled (out).
Call(pc, settles, events, out) ==
    [out |-> out, events |-> events, pc |-> pc, settles |-> settles]

NoCall == Call("idle", Settles("resolves", "none"), <<>>, Settles("none", "none"))

\* The server has received no request and the wrapper has not been called.
SrvFresh ==
    /\ hreq = NoRequest
    /\ hpc = "idle"
    /\ hevents = <<>>
    /\ hnum = 0
    /\ wcalls = [i \in 1 .. MaxCalls |-> NoCall]

\* The pipeline-trace process has not been launched.
PipeFresh ==
    /\ pjob = "none"
    /\ penv = [ds |-> NoTime, de |-> NoTime, configured |-> TRUE, gh |-> FALSE]
    /\ ppc = "idle"
    /\ pidx = 1
    /\ pspans = <<>>
    /\ pentries = <<>>
    /\ pposts = <<>>
    /\ pevents = <<>>
    /\ pshut = FALSE
    /\ pexit = 0
    /\ pfailed = {}

Args(step, t, p, s, status) ==
    [step |-> step, traceId |-> t, spanId |-> s, parentSpanId |-> p,
     status |-> status]

NoArgs == Args(<<>>, NoArg, NoArg, NoArg, "none")

NoInvocation ==
    [cmd |-> "none", outcome |-> "none", local |-> <<>>, spans |-> {},
     logs |-> <<>>, out |-> <<>>, events |-> <<>>, exit |-> 0,
     shutdown |-> FALSE, now |-> 0, attrs |-> {}, a |-> NoArgs]

\* The contexts the orchestrator holds: the (trace id, span id) pairs that
\* start and start-child printed, and one pair that no invocation printed.
PrintedCtx ==
    {[traceId |-> sp.traceId, spanId |-> sp.spanId] :
        sp \in {x \in spans : x.name.suffix = ""}}

KnownCtx ==
    PrintedCtx \cup {[traceId |-> ForeignTrace, spanId |-> ForeignSpan]}

\* What the orchestrator may pass as (--trace-id, --parent-span-id/--span-id):
\* a context it holds, with either flag, both or none left out.
CtxArgs ==
    IF mode = "job"
    THEN PrintedCtx
         \cup {[traceId |-> c.traceId, spanId |-> NoArg] : c \in PrintedCtx}
         \cup {[traceId |-> NoArg, spanId |-> NoArg]}
    ELSE
    {[traceId |-> IF mt THEN c.traceId ELSE NoArg,
      spanId |-> IF ms THEN c.spanId ELSE NoArg] :
        c \in KnownCtx, mt \in BOOLEAN, ms \in BOOLEAN}

CliState ==
    [nT |-> nextTrace, nS |-> nextSpan, started |-> started, files |-> files,
     now |-> clock]

\* The time the next process finds: time passes between two invocations
\* (followed up to MaxClock when the orchestrator is timed).
ClockAfter ==
    IF mode = "timed" /\ clock < MaxClock THEN {clock, clock + 1} ELSE {clock}

\* The process ran to its exit with record r.  Behaviours are followed while
\* the id generator has a span id left.
Commit(cmd, a, outcome, r) ==
    /\ nextSpan <= (IF mode = "job" THEN MaxJobSpans ELSE MaxSpanIds)
    /\ r.nT <= MaxTraceIds + 1
    /\ nextTrace' = r.nT
    /\ nextSpan' = r.nS
    /\ spans' = spans \cup r.spans
    /\ logs' = logs \o r.logs
    /\ files' = r.files
    /\ last' = [cmd |-> cmd,
                outcome |-> IF r.logs = <<>> THEN "none" ELSE outcome,
                local |-> r.local, spans |-> r.spans, logs |-> r.logs,
                out |-> r.out, events |-> r.events, exit |-> r.exit,
                shutdown |-> r.shutdown, now |-> r.now, attrs |-> r.attrs,
                a |-> a]
    /\ started' = r.timers @@ started
    /\ clock' \in ClockAfter
    /\ UNCHANGED <<rev, childSteps, mode, pipeVars, srvVars, sumVars>>

\* No invocation of the CLI has run.
CliFresh ==
    /\ nextTrace = 1
    /\ nextSpan = 1
    /\ spans = {}
    /\ logs = <<>>
    /\ files = NoFiles
    /\ last = NoInvocation
    /\ clock = 1
    /\ started = NoTimers

CliInit ==
    /\ rev \in CliRevs
    /\ CliFresh
    /\ childSteps = {StepSpaced}
    /\ mode = "free"
    /\ prev = RevPt2
    /\ PipeFresh
    /\ hrev = RevIdx2
    /\ SrvFresh
    /\ srev = RevP9
    /\ SumFresh

\* The POST outcomes to consider for an invocation: all of them when the
\* invocation POSTs a record r0 (computed for one outcome) and the
\* orchestrator is the free one, a 2xx otherwise.
OutcomesOf(r0) ==
    IF r0.logs = <<>> \/ mode # "free" THEN {"2xx"} ELSE PostOutcomes

\* The step outcomes the orchestrator reports with a closing command: a job
\* followed through its longer sequences, or under a clock, reports success.
ReportedOutcomes == IF mode # "free" THEN {"success"} ELSE StepOutcomes

\* node trace-cli.js start --step=<name>
CliStart ==
    \E a \in {Args(StepJob, NoArg, NoArg, NoArg, "none")} :
    \E r \in {BranchStart(rev, a, CliState)} :
        Commit("start", a, "none", r)

\* node trace-cli.js start-child --step= --trace-id= --parent-span-id=
CliStartChild ==
    \E step \in childSteps, c \in CtxArgs :
    \E a \in {Args(step, c.traceId, c.spanId, NoArg, "none")} :
    \E r0 \in {BranchStartChild(rev, a, CliState, "2xx")} :
    \E o \in OutcomesOf(r0) :
    \E r \in {BranchStartChild(rev, a, CliState, o)} :
        Commit("start-child", a, o, r)

\* node trace-cli.js end-child --step= --trace-id= --span-id=, after a step
\* the orchestrator saw succeed or fail
CliEndChild ==
    \E step \in childSteps, c \in CtxArgs, status \in ReportedOutcomes :
    \E a \in {Args(step, c.traceId, NoArg, c.spanId, status)} :
    \E r0 \in {BranchEndChild(rev, a, CliState, "2xx")} :
    \E o \in OutcomesOf(r0) :
    \E r \in {BranchEndChild(rev, a, CliState, o)} :
        Commit("end-child", a, o, r)

\* node trace-cli.js end --step= --trace-id= with the root span id passed as
\* --parent-span-id or as --span-id
CliEnd ==
    \E c \in CtxArgs, flag \in {"parent-span-id", "span-id"},
       status \in ReportedOutcomes :
    \E a \in {Args(StepJob, c.traceId,
                   IF flag = "parent-span-id" THEN c.spanId ELSE NoArg,
                   IF flag = "span-id" THEN c.spanId ELSE NoArg, status)} :
    \E r0 \in {BranchEnd(rev, a, CliState, "2xx")} :
    \E o \in OutcomesOf(r0) :
    \E r \in {BranchEnd(rev, a, CliState, o)} :
        Commit("end", a, o, r)

\* node trace-cli.js <anything else>
CliOther ==
    \E r \in {BranchOther(rev, CliState)} : Commit("other", NoArgs, "none", r)

CliNext == CliStart \/ CliStartChild \/ CliEndChild \/ CliEnd \/ CliOther

Spec == CliInit /\ [][CliNext]_vars

\* One job of a workflow: the invocations of one revision, each given the ids
\* an earlier invocation printed or no ids at all, for two step names whose
\* hand-off files have the same name.
JobInit ==
    /\ rev \in CliRevs
    /\ CliFresh
    /\ childSteps = ChildSteps
    /\ mode = "job"
    /\ prev = RevPt2
    /\ PipeFresh
    /\ hrev = RevIdx2
    /\ SrvFresh
    /\ srev = RevP9
    /\ SumFresh

SpecJob == JobInit /\ [][CliNext]_vars

\* The CLI run by an orchestrator while time passes between its invocations.
TimerInit ==
    /\ rev \in CliRevs
    /\ CliFresh
    /\ childSteps = {StepSpaced}
    /\ mode = "timed"
    /\ prev = RevPt2
    /\ PipeFresh
    /\ hrev = RevIdx2
    /\ SrvFresh
    /\ srev = RevP9
    /\ SumFresh

SpecTimer == TimerInit /\ [][CliNext]_vars

\* ------------------------------------------------ report server: actions

SrvStep(st) ==
    /\ hevents' = hevents \o st.events
    /\ hpc' = st.pc

\* A POST arrives (the handler runs to its first await or to the 400); the
\* requests are followed one at a time.
SrvReceive ==
    /\ hpc \in {"idle", "done"}
    /\ hnum < MaxRequests
    /\ \E to \in Headers, excel \in AwaitOutcomes, email \in AwaitOutcomes,
          post \in PostOutcomes :
        /\ hreq' = Request(to, excel, email, post)
        /\ hevents' = OnReceive(hrev, to).events
        /\ hpc' = OnReceive(hrev, to).pc
    /\ hnum' = hnum + 1
    /\ UNCHANGED <<hrev, wcalls, cliVars, pipeVars, sumVars>>

SrvExcelSettles ==
    /\ hpc = "excel"
    /\ SrvStep(OnExcelSettled(hrev, hreq.excel))
    /\ UNCHANGED <<hrev, hreq, hnum, wcalls, cliVars, pipeVars, sumVars>>

SrvEmailSettles ==
    /\ hpc = "email"
    /\ SrvStep(OnEmailSettled(hrev, hreq.email))
    /\ UNCHANGED <<hrev, hreq, hnum, wcalls, cliVars, pipeVars, sumVars>>

SrvPostSettles ==
    /\ hpc = "post"
    /\ SrvStep(OnPostSettled(hrev, hreq.post))
    /\ UNCHANGED <<hrev, hreq, hnum, wcalls, cliVars, pipeVars, sumVars>>

SrvErrLogSettles ==
    /\ hpc = "errlog"
    /\ SrvStep(OnErrLogSettled(hrev))
    /\ UNCHANGED <<hrev, hreq, hnum, wcalls, cliVars, pipeVars, sumVars>>

SrvNext ==
    \/ SrvReceive
    \/ SrvExcelSettles
    \/ SrvEmailSettles
    \/ SrvPostSettles
    \/ SrvErrLogSettles

SrvInit ==
    /\ rev = RevTc1
    /\ CliFresh
    /\ childSteps = {StepSpaced}
    /\ mode = "free"
    /\ prev = RevPt2
    /\ PipeFresh
    /\ hrev \in IdxRevs
    /\ SrvFresh
    /\ srev = RevP9
    /\ SumFresh

SpecServer == SrvInit /\ [][SrvNext]_vars

\* The wrapped function is called: the span is started and fn is awaited.
WrapCall(i) ==
    /\ wcalls[i].pc = "idle"
    /\ \E f \in FnOutcomes :
        wcalls' = [wcalls EXCEPT ![i] =
                      Call("awaiting", f, <<"span.start", "fn.call">>, @.out)]
    /\ UNCHANGED <<hrev, hreq, hpc, hevents, hnum, cliVars, pipeVars, sumVars>>

\* fn settles and the wrapper runs to its end.
WrapSettle(i) ==
    /\ wcalls[i].pc = "awaiting"
    /\ wcalls' = [wcalls EXCEPT ![i] =
                     Call("done", @.settles,
                          @.events \o OnFnSettled(@.settles).events,
                          OnFnSettled(@.settles).out)]
    /\ UNCHANGED <<hrev, hreq, hpc, hevents, hnum, cliVars, pipeVars, sumVars>>

WrapNext ==
    \/ \E i \in 1 .. MaxCalls : WrapCall(i)
    \/ \E i \in 1 .. MaxCalls : WrapSettle(i)

WrapInit ==
    /\ rev = RevTc1
    /\ CliFresh
    /\ childSteps = {StepSpaced}
    /\ mode = "free"
    /\ prev = RevPt2
    /\ PipeFresh
    /\ hrev = RevIdx2
    /\ SrvFresh
    /\ srev = RevP9
    /\ SumFresh

SpecWrapper == WrapInit /\ [][WrapNext]_vars

\* -------------------------------------------------- summary CLI: actions

\* finally { ...; await logToDynatraceOnce(); }: the record as it is now is
\* serialised into the one fetch of logToDynatraceOnce.
SumFinally(log, caught, events) ==
    /\ slog' = log
    /\ scaught' = caught
    /\ sposts' = Append(sposts, log)
    /\ sevents' = sevents \o events \o <<"post">>
    /\ spc' = "post"

\* node <script>: a new process, up to `await sdk.start()`.
SumLaunch ==
    /\ spc \in {"idle", "done"}
    /\ sruns < MaxRuns
    /\ sruns' = sruns + 1
    /\ slog' = ExecutionLog(srev)
    /\ scaught' = FALSE
    /\ sevents' = <<"sdk.start">>
    /\ spc' = "sdk.start"
    /\ UNCHANGED <<srev, sposts, cliVars, pipeVars, srvVars>>

\* sdk.start() settles; then the span is started and ended and
\* sdk.shutdown() is called, unless one of them throws.
SumSdkStartSettles ==
    /\ spc = "sdk.start"
    /\ \E start \in AwaitOutcomes, span \in AwaitOutcomes :
         IF start = "throws"
         THEN SumFinally(Catch(srev, slog), TRUE, <<"catch">>)
         ELSE IF span = "throws"
         THEN SumFinally(Catch(srev, slog), TRUE, <<"span.throws", "catch">>)
         ELSE /\ sevents' = sevents \o <<"span.start", "span.end",
                                         "sdk.shutdown">>
              /\ slog' = SetSpanIds(slog)
              /\ spc' = "sdk.shutdown"
              /\ UNCHANGED <<scaught, sposts>>
    /\ UNCHANGED <<srev, sruns, cliVars, pipeVars, srvVars>>

\* sdk.shutdown() settles.
SumShutdownSettles ==
    /\ spc = "sdk.shutdown"
    /\ \E shutdown \in AwaitOutcomes :
         IF shutdown = "throws"
         THEN SumFinally(Catch(srev, slog), TRUE, <<"catch">>)
         ELSE SumFinally(slog, FALSE, <<>>)
    /\ UNCHANGED <<srev, sruns, cliVars, pipeVars, srvVars>>

\* The fetch of logToDynatraceOnce settles: every outcome is logged locally
\* and the process ends.
SumPostSettles ==
    /\ spc = "post"
    /\ \E o \in PostOutcomes :
         sevents' = sevents \o <<"post.done",
                                 IF o = "2xx" THEN "log.sent" ELSE "log.failed">>
    /\ spc' = "done"
    /\ UNCHANGED <<srev, slog, scaught, sposts, sruns, cliVars, pipeVars,
                   srvVars>>

SumNext ==
    SumLaunch \/ SumSdkStartSettles \/ SumShutdownSettles \/ SumPostSettles

SumInit ==
    /\ rev = RevTc1
    /\ CliFresh
    /\ childSteps = {StepSpaced}
    /\ mode = "free"
    /\ prev = RevPt2
    /\ PipeFresh
    /\ hrev = RevIdx2
    /\ SrvFresh
    /\ srev \in SumRevs
    /\ SumFresh

SpecSummary == SumInit /\ [][SumNext]_vars

\* ----------------------------------------------- pipeline tracer: actions

\* node pipeline-trace.js <job>: up to the first step.
PipeLaunch ==
    /\ ppc = "idle"
    /\ \E job \in Jobs, configured \in BOOLEAN, gh \in BOOLEAN,
          ds \in DeployTimes, de \in DeployTimes :
        /\ (prev # RevP2) => (configured /\ ~gh)
        /\ (prev # RevP2 \/ job # "Deploy") => (ds = NoTime /\ de = NoTime)
        /\ pjob' = job
        /\ penv' = [ds |-> ds, de |-> de, configured |-> configured, gh |-> gh]
        /\ IF job = "Other"
           THEN /\ ppc' = "done"
                /\ pexit' = 1
                /\ IF JobCheckedFirst(prev)
                   THEN /\ pspans' = <<>>
                        /\ pevents' = <<"exit">>
                   ELSE /\ pspans' = <<OpenSpan(job, NoTime)>>
                        /\ pevents' = <<"sdk.start", "span.start", "exit">>
           ELSE /\ ppc' = "steps"
                /\ pexit' = 0
                /\ pspans' = <<OpenSpan(job, RootStart(prev, job, ds))>>
                /\ pevents' = <<"sdk.start", "span.start">>
    /\ UNCHANGED <<prev, pidx, pentries, pposts, pshut, pfailed, cliVars, srvVars, sumVars>>

\* The next step of the job, whose command succeeds or fails.
PipeStep ==
    /\ ppc = "steps"
    /\ pidx <= Len(Steps(prev, pjob))
    /\ \E ok \in BOOLEAN :
       \E step \in {Steps(prev, pjob)[pidx]} :
       \E r \in {RunStep(prev, pjob, step, ok, penv.ds, penv.de)} :
          /\ (step.onFail = "none") => ok
          /\ pfailed' = IF ok THEN pfailed ELSE pfailed \cup {step.name}
          /\ pentries' = pentries \o r.entries
          /\ IF r.thrown
             THEN /\ ppc' = "done"
                  /\ pexit' = 1
                  /\ pidx' = pidx
                  /\ IF prev = RevPt2
                     THEN \* catch: root status; finally: root end, shutdown
                          /\ pspans' = <<EndAt(SetStatus(pspans[1], "error"),
                                               NoTime)>>
                                          \o Tail(pspans) \o <<r.span>>
                          /\ pevents' = pevents \o
                                <<"span.start", "span.end", "root.end",
                                  "sdk.shutdown", "exit">>
                          /\ pshut' = TRUE
                     ELSE \* the rejection reaches the top level
                          /\ pspans' = Append(pspans, r.span)
                          /\ pevents' = pevents \o <<"span.start", "exit">>
                          /\ pshut' = pshut
             ELSE /\ ppc' = "steps"
                  /\ pexit' = pexit
                  /\ pidx' = pidx + 1
                  /\ pspans' = Append(pspans, r.span)
                  /\ pevents' = pevents \o <<"span.start", "span.end">>
                  /\ pshut' = pshut
    /\ UNCHANGED <<prev, pjob, penv, pposts, cliVars, srvVars, sumVars>>

\* The entry pushed when fetchGitHubRunAndJobs returned data.
MetricsEntry == Entry("", "github_actions_run_metrics", "")

\* After the last step: root span end, log POST, sdk.shutdown(), exit.
PipeFinish ==
    /\ ppc = "steps"
    /\ pidx > Len(Steps(prev, pjob))
    /\ \E all \in {IF prev = RevP2 /\ penv.gh
                    THEN Append(pentries, MetricsEntry) ELSE pentries} :
       \E posts \in {IF prev = RevP2
                      THEN SendExecutionLogs(all, penv.configured)
                      ELSE <<>>} :
          /\ pentries' = all
          /\ pposts' = posts
          /\ pspans' = <<EndAt(IF prev = RevPt2
                               THEN SetStatus(pspans[1], "ok") ELSE pspans[1],
                               RootEnd(prev, pjob, penv.de))>>
                          \o Tail(pspans)
          /\ pevents' = pevents \o <<"root.end">>
                           \o [i \in 1 .. Len(posts) |-> "post"]
                           \o <<"sdk.shutdown", "exit">>
    /\ pshut' = TRUE
    /\ pexit' = 0
    /\ ppc' = "done"
    /\ UNCHANGED <<prev, pjob, penv, pidx, pfailed, cliVars, srvVars, sumVars>>

PipeNext == PipeLaunch \/ PipeStep \/ PipeFinish

PipeInit ==
    /\ rev = RevTc1
    /\ CliFresh
    /\ childSteps = {StepSpaced}
    /\ mode = "free"
    /\ prev \in PipeRevs
    /\ PipeFresh
    /\ hrev = RevIdx2
    /\ SrvFresh
    /\ srev = RevP9
    /\ SumFresh

SpecPipeline == PipeInit /\ [][PipeNext]_vars

\* ------------------------------------------------------ CLI: the claims

\* The values printed under key k by the last invocation, in order.
Printed(k) == SelectSeq(last.out, LAMBDA l : l.k = k)

\* The last invocation was a closing command (end-child or end).
Closing == last.cmd \in {"end-child", "end"}

\* The span id the orchestrator passed to the last closing invocation.
GivenSpanId(a) == IF a.spanId # NoArg THEN a.spanId ELSE a.parentSpanId

\* The identifiers a closing command can take from the hand-off files fs.
FileTraceId(cmd, a, fs) ==
    IF cmd = "end"
    THEN IF FileExists(fs, TraceContextFile)
         THEN Field(fs[TraceContextFile], "trace_id") ELSE NoArg
    ELSE IF FileExists(fs, ChildFile(a.step))
         THEN Field(fs[ChildFile(a.step)], "traceId") ELSE NoArg

FileSpanId(cmd, a, fs) ==
    IF cmd = "end"
    THEN IF FileExists(fs, TraceContextFile)
         THEN Field(fs[TraceContextFile], "parent_span_id") ELSE NoArg
    ELSE IF FileExists(fs, ChildFile(a.step))
         THEN Field(fs[ChildFile(a.step)], "spanId") ELSE NoArg

\* A required identifier is absent: no trace id, or no id of the span to
\* close, from the arguments or from a hand-off file.
IdentifierAbsent(cmd, a, fs) ==
    \/ (a.traceId = NoArg /\ FileTraceId(cmd, a, fs) = NoArg)
    \/ (GivenSpanId(a) = NoArg /\ FileSpanId(cmd, a, fs) = NoArg)

\* C1: end-child and end, invoked with a required identifier absent (from the
\* arguments and from the hand-off files present when the process starts),
\* exit with a non-zero code, export no span and POST no log record.
C1_NoIdNoNetwork ==
    [][(last'.cmd \in {"end-child", "end"}
          /\ IdentifierAbsent(last'.cmd, last'.a, files))
       => (last'.exit # 0 /\ last'.logs = <<>> /\ last'.spans = {})]_cliVars

\* The root span that `start` opened and whose (trace id, span id) the last
\* invocation was given as --trace-id / --parent-span-id.
StartedRootGiven(sp) ==
    /\ sp \in spans
    /\ sp.name.suffix = ""
    /\ sp.parentSpanId = NoArg
    /\ sp.traceId = last.a.traceId
    /\ sp.spanId = last.a.parentSpanId

\* C2: after `start` produced {T, S}, `end --trace-id=T --parent-span-id=S`
\* with status=success emits exactly one log record, with status=success,
\* trace_id=T and span_id=S.
C2_EndLogsSuccess ==
    (/\ last.cmd = "end"
     /\ last.a.status = "success"
     /\ last.a.spanId = NoArg
     /\ \E sp \in spans : StartedRootGiven(sp))
    => (/\ Len(last.logs) = 1
        /\ last.logs[1].status = "success"
        /\ last.logs[1].trace_id = last.a.traceId
        /\ last.logs[1].span_id = last.a.parentSpanId)

\* The span opened by start / start-child whose printed pair the last closing
\* invocation was given.
OpenedGiven(sp) ==
    /\ sp \in spans
    /\ sp.name.suffix = ""
    /\ sp.traceId = last.a.traceId
    /\ sp.spanId = GivenSpanId(last.a)

\* C3: NotStarted -> Open -> Closed across processes: the closing invocation
\* that is given the pair printed for an opened span ends and exports a span
\* carrying that same (traceId, spanId), and the opened span is not left Open
\* once the end call has completed.
C3_OpenedSpanIsClosed ==
    \A sp \in spans :
        (Closing /\ last.exit = 0 /\ OpenedGiven(sp))
        => (/\ \E e \in last.spans :
                  e.ended /\ e.traceId = sp.traceId /\ e.spanId = sp.spanId
            /\ \A o \in spans :
                  (o.traceId = sp.traceId /\ o.spanId = sp.spanId) => o.ended)

\* The last invocation was start-child with both identifiers present.
StartChildValid ==
    /\ last.cmd = "start-child"
    /\ last.a.traceId # NoArg
    /\ last.a.parentSpanId # NoArg

\* C4: start-child given a valid (traceId, parentSpanId) prints one span_id,
\* different from parentSpanId, and one trace_id, equal to the given traceId.
C4_StartChildIds ==
    StartChildValid
    => (/\ Len(Printed("trace_id")) = 1
        /\ Printed("trace_id")[1].v = last.a.traceId
        /\ Len(Printed("span_id")) = 1
        /\ Printed("span_id")[1].v # NoArg
        /\ Printed("span_id")[1].v # last.a.parentSpanId)

C4_Witness ==
    /\ StartChildValid
    /\ last.a.traceId # ForeignTrace
    /\ last.exit = 0
    /\ last.spans # {}

\* The last invocation was start-child with --trace-id or --parent-span-id
\* left out.
StartChildIncomplete ==
    /\ last.cmd = "start-child"
    /\ (last.a.traceId = NoArg \/ last.a.parentSpanId = NoArg)

\* C5: start-child without --trace-id (or without --parent-span-id) exits
\* with code 1, starts no span and emits no log record.
C5_StartChildMissing ==
    StartChildIncomplete
    => (last.exit = 1 /\ last.spans = {} /\ last.logs = <<>>)

C5_Witness ==
    /\ last.cmd = "start-child"
    /\ last.a.traceId = NoArg
    /\ last.a.parentSpanId # NoArg
    /\ last.exit = 1

\* C6: end-child with --trace-id=T and --span-id=S closes the child span
\* (T, S), emits exactly one log record with trace_id T and span_id S, and
\* exits with code 0.
C6_EndChildCloses ==
    (last.cmd = "end-child" /\ last.a.traceId # NoArg /\ last.a.spanId # NoArg)
    => (/\ \E e \in last.spans :
              e.ended /\ e.traceId = last.a.traceId /\ e.spanId = last.a.spanId
        /\ Len(last.logs) = 1
        /\ last.logs[1].trace_id = last.a.traceId
        /\ last.logs[1].span_id = last.a.spanId
        /\ last.exit = 0)

\* The local log line logToDynatrace writes for a POST outcome.
LocalLineFor(o) ==
    IF o = "2xx" THEN "info: Log sent to Dynatrace"
    ELSE "error: Log ingestion failed"

\* C7: whatever the outcome of the log POST (exception, non-2xx, 2xx),
\* logToDynatrace does not throw: the outcome is logged locally, the
\* invocation goes on to sdk.shutdown(), and the exit code is 0 as it is
\* when the POST succeeds.
C7_PostNeverRaises ==
    last.logs # <<>>
    => (/\ last.exit = 0
        /\ last.shutdown
        /\ \E i \in 1 .. Len(last.events) : last.events[i] = "sdk.shutdown"
        /\ \E i \in 1 .. Len(last.local) : last.local[i] = LocalLineFor(last.outcome))

C7_Witness ==
    /\ last.logs # <<>>
    /\ last.outcome = "exception"
    /\ last.cmd = "end-child"
    /\ last.exit = 0

\* C8: the status in the log record of end-child / end is the outcome the
\* orchestrator supplied; a failed step is never logged as success or
\* completed.
C8_StatusIsSupplied ==
    Closing
    => \A i \in 1 .. Len(last.logs) :
          /\ last.logs[i].status = last.a.status
          /\ (last.a.status = "failure"
                => last.logs[i].status \notin {"success", "completed"})

\* --------------------------------------------- pipeline tracer: the claims

\* The pipeline-trace process has exited.
PipeExited == ppc = "done"

\* The span of the step called name, if the process started one.
StepSpans(name) ==
    {i \in 2 .. Len(pspans) : pspans[i].name = name}

\* C9: when a wrapped step command fails, the failing step's span and the
\* root span are both ended, and the SDK is shut down, before the process
\* exits.
C9_FailedStepSpanClosed ==
    (PipeExited /\ pfailed # {})
    => (/\ \A name \in pfailed : \A i \in StepSpans(name) : pspans[i].ended
        /\ pspans[1].ended
        /\ pshut)

\* The entries executionLogs holds for the step called name.
EntriesOf(name) == SelectSeq(pentries, LAMBDA e : e.step = name)

\* The step function of s threw: its command failed and nothing caught it.
StepThrew(s) == s.name \in pfailed /\ s.onFail = "throws"

\* Each step of the job has exactly one entry: ERROR with a message when the
\* step threw, SUCCESS otherwise.
OneEntryPerStep ==
    \A i \in 1 .. Len(Steps(prev, pjob)) :
        LET s == Steps(prev, pjob)[i]
            es == EntriesOf(s.name)
        IN /\ Len(es) = 1
           /\ IF StepThrew(s)
              THEN es[1].status = "ERROR" /\ es[1].error # ""
              ELSE es[1].status = "SUCCESS" /\ es[1].error = ""

\* The positions of an event in the order of calls.
At(ev) == {i \in 1 .. Len(pevents) : pevents[i] = ev}

\* The collected entries were POSTed in one request, after the root span was
\* ended and before sdk.shutdown().
PostedOnceInOrder ==
    /\ Len(pposts) = 1
    /\ pposts[1] = pentries
    /\ \A i \in At("post") :
          /\ \E j \in At("root.end") : j < i
          /\ \A k \in At("sdk.shutdown") : i < k
    /\ pspans[1].ended
    /\ pshut

\* A run of part_002's pipeline tracer for a known job has exited.
LoggedRunExited == prev = RevP2 /\ PipeExited /\ pjob \in {"Build", "Deploy"}

\* C10 as stated: for every combination of failing and succeeding steps, each
\* step contributes exactly one execution-log entry, the steps after a failed
\* one still run, and the collected entries are POSTed exactly once, after
\* the root span is ended and before the SDK is shut down.
C10_LogsAlwaysPosted ==
    LoggedRunExited => (OneEntryPerStep /\ PostedOnceInOrder)

\* C10, amended: the same holds whenever the log-ingest URL and the API token
\* are configured; when either is missing, every step still contributes its
\* entry and the root span is ended and the SDK shut down, but nothing is
\* POSTed.
C10_LogsPostedWhenConfigured ==
    LoggedRunExited
    => (/\ OneEntryPerStep
        /\ IF penv.configured
           THEN PostedOnceInOrder
           ELSE pposts = <<>> /\ pspans[1].ended /\ pshut)

C10_Witness ==
    /\ LoggedRunExited
    /\ penv.configured
    /\ pjob = "Build"
    /\ pfailed = {"Install Dependencies", "Zip Artifact"}
    /\ Len(pentries) = 3
    /\ Len(pposts) = 1

\* C11: a failure of a wrapped command is recorded as error status on the
\* step's span and propagated as the exit code: whenever a wrapped command of
\* a job has failed, the step's span has status error and the pipeline-trace
\* process exits with a non-zero code.
C11_FailureIsExitCode ==
    (PipeExited /\ pfailed # {})
    => (/\ pexit # 0
        /\ \A name \in pfailed :
              \A i \in StepSpans(name) : pspans[i].status = "error")

\* The last invocation made call e1 and made it before every call e2.
CalledBefore(e1, e2) ==
    \E i \in 1 .. Len(last.events) :
        /\ last.events[i] = e1
        /\ \A j \in 1 .. Len(last.events) : last.events[j] = e2 => i < j

\* The last invocation awaited sdk.shutdown() before the process exited.
ShutdownAwaited == last.shutdown /\ CalledBefore("sdk.shutdown", "exit")

\* C12 as stated: every invocation of the CLI, for every command and every
\* combination of present or absent arguments, waits for sdk.shutdown() to
\* complete before the process exits.
C12_AlwaysShutdown == last.cmd # "none" => ShutdownAwaited

\* C12, amended: every invocation that started a span or POSTed a log record
\* waits for sdk.shutdown() before it exits; an invocation that exits without
\* the shutdown (missing identifier, no matching branch) has started no span
\* and POSTed nothing.
C12_ShutdownWhenSpanStarted ==
    (last.spans # {} \/ last.logs # <<>>) => ShutdownAwaited

C12_Witness ==
    /\ last.cmd = "end"
    /\ rev = RevP10
    /\ last.spans # {}
    /\ last.logs # <<>>
    /\ ShutdownAwaited

\* How many times the last invocation made the call ev.
Calls(ev) == Cardinality({i \in 1 .. Len(last.events) : last.events[i] = ev})

\* C13: each CLI invocation performs at most one span transition: start and
\* start-child only open a span (they neither end it nor emit a log record),
\* end-child and end only close one (they open none).
C13_OneTransition ==
    /\ Calls("span.start") + Calls("span.end") <= 1
    /\ last.cmd \in {"start", "start-child"}
          => (Calls("span.end") = 0 /\ last.logs = <<>>)
    /\ Closing => Calls("span.start") = 0

\* The hand-off files present in the working directory.
HandOffFiles == {n \in DOMAIN files : n = TraceContextFile \/ IsChildFile(n)}

\* The job opened a root span with start and a child span with start-child.
JobOpenedRootAndChild ==
    /\ \E sp \in spans : sp.name.suffix = "" /\ sp.parentSpanId = NoArg
    /\ \E sp \in spans : sp.name.suffix = "" /\ sp.parentSpanId # NoArg

\* C14: after an `end` invocation has completed no hand-off file remains,
\* neither .trace_context nor any .child-*, whatever files existed before
\* it; with no file at all the hand-off-file revision still completes
\* (exit 0).
C14_EndLeavesNoFile ==
    last.cmd = "end"
    => (/\ last.exit = 0 => HandOffFiles = {}
        /\ rev = RevP8b => last.exit = 0)

C14_Witness ==
    /\ rev = RevP8b
    /\ last.cmd = "end"
    /\ last.exit = 0
    /\ JobOpenedRootAndChild
    /\ HandOffFiles = {}

\* The last closing invocation started its span under the context (t, p).
ClosedUnder(inv, t, p) ==
    /\ inv.exit = 0
    /\ inv.spans # {}
    /\ \A e \in inv.spans : e.traceId = t /\ e.parentSpanId = p

\* C15: in the hand-off-file revision a closing command takes the ids from
\* its arguments and reads the hand-off file only when they are absent:
\* given --trace-id and --span-id / --parent-span-id it closes under exactly
\* those; given none of them it closes under the trace id and span id stored
\* in the file present when the process starts.
C15_ArgsElseFile ==
    [][(rev = RevP8b /\ last'.cmd \in {"end-child", "end"})
       => (/\ (last'.a.traceId # NoArg /\ GivenSpanId(last'.a) # NoArg)
                => ClosedUnder(last', last'.a.traceId, GivenSpanId(last'.a))
           /\ (/\ last'.a.traceId = NoArg
               /\ GivenSpanId(last'.a) = NoArg
               /\ FileTraceId(last'.cmd, last'.a, files) # NoArg
               /\ FileSpanId(last'.cmd, last'.a, files) # NoArg)
                => ClosedUnder(last', FileTraceId(last'.cmd, last'.a, files),
                               FileSpanId(last'.cmd, last'.a, files)))]_cliVars

\* The last closing invocation ran a branch of its revision that reads the
\* flags it was given: the second trace-cli.js revision has no end-child
\* branch, and `end` reads the span id from --span-id in the first revision
\* and from --parent-span-id in the second and in the final one.
BranchReadsGiven ==
    IF last.cmd = "end-child"
    THEN rev # RevTc2 /\ last.a.spanId # NoArg
    ELSE CASE rev \in {RevTc1, RevP6} -> last.a.spanId # NoArg
           [] rev \in {RevTc2, RevP10} -> last.a.parentSpanId # NoArg
           [] OTHER -> TRUE

\* The branch builds the parent context from the arguments.
ParentFromArgs == ~(last.cmd = "end" /\ rev \in {RevP8a, RevP8b})

\* The last closing invocation was given a (trace id, span id) that no
\* start or start-child of the job printed.
GivenUnknownPair ==
    /\ Closing
    /\ last.a.traceId = ForeignTrace
    /\ GivenSpanId(last.a) = ForeignSpan
    /\ ~ \E sp \in spans : sp.traceId = ForeignTrace /\ sp.spanId = ForeignSpan

\* C16: an end / end-child that references a (traceId, spanId) no prior
\* start produced does not crash: it exits 0, exports exactly one ended span
\* (detached: a child of the given pair, which no span carries) and POSTs
\* one log record.
C16_UnknownParentDetached ==
    (GivenUnknownPair /\ BranchReadsGiven)
    => (/\ last.exit = 0
        /\ Len(last.logs) = 1
        /\ \E e \in last.spans :
              /\ last.spans = {e}
              /\ e.ended
              /\ ParentFromArgs
                   => (e.traceId = ForeignTrace /\ e.parentSpanId = ForeignSpan))

C16_Witness ==
    /\ rev = RevTc1
    /\ GivenUnknownPair
    /\ BranchReadsGiven
    /\ last.cmd = "end"
    /\ spans = last.spans
    /\ last.exit = 0
    /\ \E e \in last.spans : e.traceId = ForeignTrace /\ e.ended

\* The span the last invocation opened and left for a later process.
LastOpened(sp) == sp \in last.spans /\ sp.name.suffix = ""

C18_EndTwiceLogsTwice ==
    [][(/\ last.cmd = "end"
        /\ last.exit = 0
        /\ Len(last.logs) = 1
        /\ last'.cmd = "end"
        /\ last'.a = last.a)
       => (/\ last'.exit = 0
           /\ Len(last'.logs) = 1
           /\ last'.logs[1].cmd = "end"
           /\ logs' = logs \o last'.logs
           /\ Len(logs') >= 2
           /\ logs'[Len(logs') - 1] = last.logs[1])]_cliVars

\* Two `end` calls for the root that start opened have each left a record,
\* the second after the first one had removed the hand-off files.
C18_Witness ==
    /\ rev = RevP8b
    /\ last.cmd = "end"
    /\ last.exit = 0
    /\ Len(logs) = 2
    /\ logs[1].cmd = "end"
    /\ logs[2].cmd = "end"
    /\ \E sp \in spans :
          /\ sp.name = SpanName(StepJob, "")
          /\ logs[1].trace_id = sp.traceId
    /\ logs[2].trace_id = NoArg

\* The POSTs of the last invocation that carry record rec.
PostsOf(rec) == {i \in 1 .. Len(last.logs) : last.logs[i] = rec}

\* C19: the log emitter makes a single attempt: whatever the outcome of the
\* POST (2xx, non-2xx, exception) a record is POSTed at most once, by the
\* CLI's logToDynatrace and by the pipeline's sendExecutionLogsToDynatrace.
C19_SinglePost ==
    /\ \A i \in 1 .. Len(last.logs) : Cardinality(PostsOf(last.logs[i])) = 1
    /\ Len(last.logs) <= 1
    /\ Calls("post") = Len(last.logs)
    /\ Len(pposts) <= 1

\* A POST that failed was not repeated.
C19_Witness ==
    /\ last.outcome \in {"non2xx", "exception"}
    /\ last.local = <<"error: Log ingestion failed">>
    /\ Len(last.logs) = 1
    /\ Calls("post") = 1

\* A child span that start-child opened and left for end-child.
OpenChild(sp) ==
    /\ sp \in spans
    /\ sp.name.suffix = ""
    /\ sp.parentSpanId # NoArg
    /\ ~sp.ended

\* No end-child has logged the closing of child sp.
NotEndedYet(sp) ==
    \A i \in 1 .. Len(logs) :
        ~(logs[i].cmd = "end-child" /\ logs[i].span_id = sp.spanId)

\* The last invocation is an `end` given, in the flags its revision reads,
\* the pair that start printed for the root span.
EndGivenRoot ==
    /\ last.cmd = "end"
    /\ BranchReadsGiven
    /\ \E root \in spans :
          /\ root.name = SpanName(StepJob, "")
          /\ root.parentSpanId = NoArg
          /\ last.a.traceId = root.traceId
          /\ GivenSpanId(last.a) = root.spanId

\* The last invocation is the end-child given the pair printed for child sp,
\* run after an `end` that came later than the child's start-child.
EndChildAfterEnd(sp) ==
    /\ last.cmd = "end-child"
    /\ last.a.step = sp.name.step
    /\ last.a.traceId = sp.traceId
    /\ last.a.spanId = sp.spanId
    /\ \E e \in spans \ last.spans :
          /\ e.name.step = StepJob
          /\ e.name.suffix # ""
          /\ e.spanId > sp.spanId

PrintedOnce(k, v) == Printed(k) = <<Line(k, v)>>

\* C21: on success `start` prints exactly one line trace_id=<id> and exactly
\* one line parent_span_id=<id>, carrying the ids of the root span it
\* created, and start-child prints exactly one line trace_id=<id> and
\* exactly one line span_id=<id>, carrying the ids of the child span it
\* created.
C21_PrintsCreatedIds ==
    (last.cmd \in {"start", "start-child"} /\ last.exit = 0)
    => \E sp \in last.spans :
          /\ last.spans = {sp}
          /\ PrintedOnce("trace_id", sp.traceId)
          /\ IF last.cmd = "start"
             THEN /\ PrintedOnce("parent_span_id", sp.spanId)
                  /\ Printed("span_id") = <<>>
             ELSE /\ PrintedOnce("span_id", sp.spanId)
                  /\ Printed("parent_span_id") = <<>>

\* The revision with DEBUG output has run `start`: three lines, one of them
\* the trace_id line.
C21_Witness ==
    /\ rev = RevP6
    /\ last.cmd = "start"
    /\ last.exit = 0
    /\ Len(last.out) = 3
    /\ Len(Printed("DEBUG")) = 1
    /\ \E sp \in last.spans : PrintedOnce("trace_id", sp.traceId)

\* ------------------------------------------- report server: the claims

\* The number of times the handler made call ev for the current request.
HCount(ev) == Cardinality({i \in 1 .. Len(hevents) : hevents[i] = ev})

\* The handler made both calls, every e1 before every e2.
HBefore(e1, e2) ==
    /\ HCount(e1) > 0
    /\ HCount(e2) > 0
    /\ \A i, j \in 1 .. Len(hevents) :
          (hevents[i] = e1 /\ hevents[j] = e2) => i < j

\* The log POSTs made for the current request.
HPosts == HCount("post.summary") + HCount("post.error")

\* C22: for every request to /v1/api/send-report that succeeds (is answered
\* 200) the steps happen in the documented order: the span starts, the Excel
\* file is generated, then the email is sent, then one JSON log is POSTed,
\* then the span ends, and only then the 200 is sent; exactly one log POST
\* is made for the request.
C22_SuccessOrder ==
    (hrev = RevIdx2 /\ HCount("res.200") > 0)
    => (/\ HBefore("span.start", "excel.call")
        /\ HBefore("excel.done", "email.call")
        /\ HBefore("email.done", "post.summary")
        /\ HBefore("post.summary", "post.done")
        /\ HBefore("post.done", "span.end")
        /\ HBefore("span.end", "res.200")
        /\ HPosts = 1
        /\ HCount("span.start") = 1
        /\ HCount("span.end") = 1)

\* A request was answered 200 although Dynatrace refused the log.
C22_Witness ==
    /\ hrev = RevIdx2
    /\ hpc = "done"
    /\ hreq.post = "non2xx"
    /\ hevents[Len(hevents)] = "res.200"
    /\ HPosts = 1

\* C24: a hand-off file left by a job that never reached `end` does not
\* leak into a later job: end-child adopts the span id stored in
\* .child-<step> only if the trace id recorded in the file equals its
\* --trace-id, so the (trace_id, span_id) pair it logs belongs to one trace:
\* some span of that trace carries that span id.
C24_LoggedPairInOneTrace ==
    (rev = RevP8b /\ last.cmd = "end-child" /\ last.logs # <<>>)
    => \A i \in 1 .. Len(last.logs) :
          \E sp \in spans :
              /\ sp.traceId = last.logs[i].trace_id
              /\ sp.spanId = last.logs[i].span_id

\* C25: in the /v1/api/send-report handler the span started for a request
\* is ended exactly once on every path through the handler: the 400 path,
\* the success path and the error path.
C25_SpanEndedOnce ==
    (hrev = RevIdx2 /\ hpc = "done")
    => (HCount("span.start") = 1 /\ HCount("span.end") = 1)

\* The responses sent for the current request.
HResponses == HCount("res.400") + HCount("res.200") + HCount("res.500")

\* An awaited step of the current request threw.
HThrew ==
    \/ hreq.excel = "throws"
    \/ hreq.email = "throws"
    \/ (hrev = RevIdx2 /\ hreq.post = "exception")

\* C26: every request to the send-report endpoint receives exactly one HTTP
\* response: 400 when the recipients header is missing, otherwise 500 when
\* an awaited step throws and 200 when Excel generation and email sending
\* both succeed (also when the log POST returns a non-2xx response); no
\* path sends two responses or none.
C26_OneResponse ==
    /\ HResponses <= 1
    /\ hpc = "done"
         => (/\ HResponses = 1
             /\ ~hreq.to.present => HCount("res.400") = 1
             /\ HCount("res.400") = 0
                  => (/\ HThrew => HCount("res.500") = 1
                      /\ ~HThrew => HCount("res.200") = 1))
    /\ hpc \notin {"idle", "done"} => HResponses = 0

\* A request answered 500 after the email had been sent: the log POST was
\* rejected.
C26_Witness ==
    /\ hrev = RevIdx2
    /\ hpc = "done"
    /\ hreq.post = "exception"
    /\ HCount("email.done") = 1
    /\ HCount("res.500") = 1
    /\ HResponses = 1

\* The x-email-to header of the current request is absent or empty.
HeaderAbsentOrEmpty == ~hreq.to.present \/ hreq.to.value = <<>>

\* C27: a send-report request whose x-email-to header is absent or empty is
\* answered with 400 and has no side effect: neither generateExcel nor
\* sendEmailWithAttachment is called and no log is POSTed to Dynatrace.
C27_NoRecipientsNoEffect ==
    (hnum > 0 /\ HeaderAbsentOrEmpty)
    => (/\ HCount("excel.call") = 0
        /\ HCount("email.call") = 0
        /\ HPosts = 0
        /\ hpc = "done"
        /\ HCount("res.400") = 1)

\* The number of times call c of the wrapper made call ev, and the
\* position of the first one.
WCount(c, ev) == Cardinality({i \in 1 .. Len(c.events) : c.events[i] = ev})

WFirst(c, ev) ==
    CHOOSE i \in 1 .. Len(c.events) :
        c.events[i] = ev /\ \A j \in 1 .. i - 1 : c.events[j] # ev

\* C28: the wrapper returned by logTracedOperation starts one span per call
\* and ends it exactly once whether fn resolves or rejects, after fn has
\* settled; it returns fn's result unchanged on success and rethrows fn's
\* error unchanged on failure.
C28_WrapperTransparent ==
    \A n \in 1 .. MaxCalls :
        LET c == wcalls[n]
        IN /\ WCount(c, "span.start") <= 1
           /\ WCount(c, "span.end") <= 1
           /\ c.pc = "awaiting"
                => (WCount(c, "span.start") = 1 /\ WCount(c, "span.end") = 0)
           /\ c.pc = "done"
                => (/\ WCount(c, "span.start") = 1
                    /\ WCount(c, "span.end") = 1
                    /\ WFirst(c, "fn.settled") < WFirst(c, "span.end")
                    /\ c.out = c.settles)


\* C29: in `end`, the POST of the final log record has settled before any
\* hand-off file is deleted and before sdk.shutdown() is called: the log
\* emission is never in flight while the exporter shuts down.
C29_LogSettledBeforeShutdown ==
    (last.cmd = "end" /\ Calls("post") > 0)
        => /\ CalledBefore("post.done", "file.delete")
           /\ CalledBefore("post.done", "sdk.shutdown")


\* ------------------------------------------------- CLI: the step duration

\* The duration the last invocation set as the span attribute
\* 'step.duration.ms', for each span it set it on.
DurationAttrs == {at[3] : at \in {x \in last.attrs : x[2] = "step.duration.ms"}}

\* The last invocation was an end-child that POSTed its record.
EndChildLogged == last.cmd = "end-child" /\ last.logs # <<>>

\* C30: the step_duration_ms that end-child logs and sets on the span comes
\* from a timer table that is empty when the process starts: it is the
\* difference of two consecutive clock reads of the end-child process, 0 under
\* the logical clock, whenever the matching start-child ran.
C30_DurationIsZero ==
    EndChildLogged
        => /\ last.logs[1].step_duration_ms = 0
           /\ DurationAttrs \subseteq {0}

\* An end-child that logged its duration although startTimer was called with
\* its label by an earlier process, at an earlier time.
C30_Witness ==
    /\ EndChildLogged
    /\ rev \in {RevTc1, RevP6}
    /\ TimerLabel(rev, last.a.step) \in DOMAIN started
    /\ started[TimerLabel(rev, last.a.step)] < last.now
    /\ last.logs[1].step_duration_ms = 0
    /\ DurationAttrs = {0}


\* ------------------------------------- pipeline tracer: the timed deploy step

\* The Deploy job of the revision with the timed step has run that step.
TimedStepRan ==
    /\ prev = RevP2
    /\ pjob = "Deploy"
    /\ ppc \in {"steps", "done"}
    /\ pidx > 1

\* The span and the execution-log entries of the timed step.
TimedSpan == pspans[2]
TimedEntries == EntriesOf("Azure Web App Deploy (timed)")

\* DEPLOY_START and DEPLOY_END are both set and DEPLOY_END > DEPLOY_START.
IntervalRecorded ==
    penv.ds # NoTime /\ penv.de # NoTime /\ penv.de > penv.ds

\* C31: the timed deploy step uses the recorded interval exactly when
\* DEPLOY_START and DEPLOY_END are both set and DEPLOY_END > DEPLOY_START:
\* then its span runs from DEPLOY_START*1000 to DEPLOY_END*1000 and the
\* logged duration is end - start and positive; in every other case the step
\* is timed by the clock.  Either way the step adds exactly one entry.
C31_TimedDeployStep ==
    TimedStepRan
        => /\ Len(TimedEntries) = 1
           /\ TimedSpan.name = "Azure Web App Deploy (timed)"
           /\ IF IntervalRecorded
              THEN /\ TimedSpan.startTime = penv.ds * 1000
                   /\ TimedSpan.endTime = penv.de * 1000
                   /\ TimedEntries[1].start = penv.ds * 1000
                   /\ TimedEntries[1].end = penv.de * 1000
                   /\ TimedEntries[1].duration
                        = TimedEntries[1].end - TimedEntries[1].start
                   /\ TimedEntries[1].duration > 0
              ELSE /\ TimedSpan.startTime = NoTime
                   /\ TimedSpan.endTime = NoTime
                   /\ TimedEntries[1].duration = NoTime


\* ------------------------------------------------ CLI: unknown commands

\* The last invocation's first argument was none of the commands its revision
\* handles (the second revision of trace-cli.js has no end-child branch).
UnknownCommand ==
    last.cmd = "other" \/ (rev = RevTc2 /\ last.cmd = "end-child")

\* C32: an invocation whose first argument is none of the commands the
\* revision handles starts no span, POSTs no log record and prints no
\* trace_id= / span_id= / parent_span_id= line.
C32_UnknownCommandInert ==
    UnknownCommand
        => /\ last.spans = {}
           /\ last.logs = <<>>
           /\ \A i \in 1 .. Len(last.events) :
                  last.events[i] \notin {"span.start", "post"}
           /\ Printed("trace_id") = <<>>
           /\ Printed("span_id") = <<>>
           /\ Printed("parent_span_id") = <<>>

\* An unknown command run after spans were started by earlier invocations.
C32_Witness ==
    /\ last.cmd = "other"
    /\ spans # {}
    /\ last.spans = {}
    /\ last.logs = <<>>
    /\ last.out = <<>>


\* ---------------------------------------- pipeline tracer: unknown job

\* C33: the pipeline tracer run with a job other than Build or Deploy exits
\* with a non-zero code without having started the SDK or any span: no span
\* is left open and nothing is exported.
C33_UnknownJobStartsNothing ==
    (pjob = "Other" /\ ppc = "done")
        => /\ pexit # 0
           /\ pspans = <<>>
           /\ \A i \in 1 .. Len(pevents) :
                  pevents[i] \notin {"sdk.start", "span.start"}


\* ------------------------------------------------ summary CLI: the claim

\* How many times the running process made the call ev.
SCount(ev) == Cardinality({i \in 1 .. Len(sevents) : sevents[i] = ev})

\* The log-level fields a record has, with their values.
LogLevels(r) == {r.loglevel, r.level} \ {"absent"}

\* C34: every run of the summary CLI POSTs exactly one execution-summary
\* record, whether or not sdk.start(), the span or sdk.shutdown() throws;
\* the record's status is the failure value exactly when an error was caught,
\* and its log-level field reads ERROR exactly when the status is the
\* failure value.
C34_OneSummaryPerRun ==
    spc = "done"
        => /\ SCount("post") = 1
           /\ Len(sposts) = sruns
           /\ LET r == sposts[Len(sposts)]
              IN /\ (r.status = FailureValue(srev)) <=> scaught
                 /\ r.status = FailureValue(srev) => LogLevels(r) = {"ERROR"}
                 /\ r.status # FailureValue(srev) => "ERROR" \notin LogLevels(r)

====
